---- MODULE Spec2Model ----
(***************************************************************************)
(* A model of Crypto_Market_Dashboard.py: the two cached fetch functions,  *)
(* the two normalisation functions and the top-to-bottom script run that   *)
(* a page refresh executes.                                                *)
(*                                                                         *)
(* Numbers with decimals are integers counting thousandths.  A JSON value  *)
(* or a table cell is a record [kind, n, s]; a datetime is a record        *)
(* [day, sec, us] of local wall-clock time.                                *)
(***************************************************************************)
EXTENDS Integers, Sequences, FiniteSets, TLC

VARIABLES
    now,              \* the clock, in seconds
    tz,               \* the local time zone of the process
    market_cache,     \* entries stored by @st.cache_data for fetch_market_data
    hist_cache,       \* entries stored by @st.cache_data for fetch_historical_data
    calls,            \* log of the fetch invocations (of this run, in Spec)
    pc,               \* position of the script
    currency,         \* sidebar selectbox
    coins_selected,   \* sidebar multiselect
    start_date,       \* datetime after line 114
    end_date,         \* datetime after line 116
    raw_market_data,  \* outcome of line 127
    market_df,        \* the global market_df, or undefined
    hist_data,        \* outcome of line 162 for the current tab
    tab,              \* loop index i of line 157 (1-based)
    overview,         \* what the market overview section shows
    tabs,             \* per handled tab: the coin, its fetch outcome, what it shows
    dominance,        \* what the dominance section shows
    footer,           \* whether the footer was rendered
    runs,             \* script runs started so far
    arg,              \* argument of a normalisation function under test
    ret               \* its outcome

vars == <<now, tz, market_cache, hist_cache, calls, pc, currency, coins_selected,
          start_date, end_date, raw_market_data, market_df, hist_data, tab,
          overview, tabs, dominance, footer, runs, arg, ret>>

scriptVars == <<pc, currency, coins_selected, start_date, end_date, raw_market_data,
                market_df, hist_data, tab, overview, tabs, dominance, footer, runs>>

cacheVars == <<market_cache, hist_cache>>

normVars == <<arg, ret>>

----------------------------------------------------------------------------
(* Program constants *)

COIN_OPTIONS == <<"bitcoin", "ethereum", "ripple", "litecoin", "cardano", "solana", "dogecoin">>

CURRENCY_OPTIONS == <<"usd", "inr", "eur">>

TTL == 300

SecondsPerDay == 86400

MicrosPerSecond == 1000000

----------------------------------------------------------------------------
(* Bounds of the model *)

\* longest list of raw snapshot records given to format_market_data
MaxRecords == 2

\* longest series of a raw historical payload given to format_complete_historical_data
MaxPoints == 2

\* the clock stops advancing here
MaxTime == 450

\* the clock advances in steps of this many seconds
TickStep == 150

\* most fetch invocations in a behaviour of SpecCache
MaxCalls == 3

\* most script runs in a behaviour of Spec
MaxRuns == 2

\* the date inputs offer the days FirstDay .. FirstDay + DaySpan (days since the epoch)
FirstDay == 20000

DaySpan == 2

----------------------------------------------------------------------------
(* Values *)

Range(s) == {s[k] : k \in DOMAIN s}

Num(x) == [kind |-> "num", n |-> x, s |-> ""]

Str(x) == [kind |-> "str", n |-> 0, s |-> x]

Null == [kind |-> "null", n |-> 0, s |-> ""]

NaN == [kind |-> "nan", n |-> 0, s |-> ""]

\* a function call's outcome: a returned value, or a raised exception
Return(v) == [exc |-> "none", val |-> v]

Raise(e) == [exc |-> e, val |-> <<>>]

Unset == [exc |-> "unset", val |-> <<>>]

----------------------------------------------------------------------------
(* format_market_data *)

MARKET_COLUMNS == <<"name", "symbol", "current_price", "price_change_percentage_24h", "market_cap">>

\* pd.DataFrame(list of dicts): the columns are the keys that occur in some record
FrameColumns(raw_data) == UNION {DOMAIN raw_data[k] : k \in DOMAIN raw_data}

\* ... and a cell is NaN where the record has no such key or has null there
FrameCell(rec, col) ==
    IF col \in DOMAIN rec /\ rec[col].kind # "null" THEN rec[col] ELSE NaN

\* df.fillna({...: 0})
FillNa(cell) == IF cell.kind = "nan" THEN Num(0) ELSE cell

MarketRow(rec) ==
    [Name       |-> FrameCell(rec, "name"),
     Symbol     |-> FrameCell(rec, "symbol"),
     Price      |-> FillNa(FrameCell(rec, "current_price")),
     Change24h  |-> FillNa(FrameCell(rec, "price_change_percentage_24h")),
     MarketCap  |-> FillNa(FrameCell(rec, "market_cap"))]

format_market_data(raw_data) ==
    IF \E c \in Range(MARKET_COLUMNS) : c \notin FrameColumns(raw_data)
    THEN Raise("KeyError")
    ELSE Return([k \in DOMAIN raw_data |-> MarketRow(raw_data[k])])

----------------------------------------------------------------------------
(* format_complete_historical_data *)

\* data.get(key, [])
Get(data, key) == IF key \in DOMAIN data THEN data[key] ELSE <<>>

\* a series entry: [timestamp ms, value], or a falsy entry (null)
Point(t, v) == [null |-> FALSE, t |-> t, v |-> v]

NoPoint == [null |-> TRUE, t |-> 0, v |-> 0]

\* mc[1] if mc else 0
ValueOrZero(e) == IF e.null THEN 0 ELSE e.v

\* numpy's round: to the nearest multiple of unit, a tie to the even one
RoundTo(x, unit) ==
    LET q == x \div unit
        r == x % unit
    IN  IF 2 * r < unit THEN q * unit
        ELSE IF 2 * r > unit THEN (q + 1) * unit
        ELSE IF q % 2 = 0 THEN q * unit ELSE (q + 1) * unit

\* pd.to_datetime(ts, unit='ms')
ToDatetime(ms) ==
    [day |-> ms \div (SecondsPerDay * 1000),
     sec |-> (ms % (SecondsPerDay * 1000)) \div 1000,
     us  |-> (ms % 1000) * 1000]

\* the frame is built from four columns, which must have one length
ColumnsAgree(prices, market_caps, total_volumes) ==
    Len(market_caps) = Len(prices) /\ Len(total_volumes) = Len(prices)

\* a variant that builds the frame before it looks at the price list
format_lengths_first(data) ==
    LET prices == Get(data, "prices")
        market_caps == Get(data, "market_caps")
        total_volumes == Get(data, "total_volumes")
    IN  IF ~ColumnsAgree(prices, market_caps, total_volumes) THEN Raise("ValueError")
        ELSE Return([k \in DOMAIN prices |->
                [Date       |-> ToDatetime(prices[k].t),
                 Price      |-> RoundTo(prices[k].v, 10),
                 Market_Cap |-> RoundTo(ValueOrZero(market_caps[k]), 1000),
                 Volume     |-> RoundTo(ValueOrZero(total_volumes[k]), 1000)]])

format_complete_historical_data(data) ==
    LET prices == Get(data, "prices")
        market_caps == Get(data, "market_caps")
        total_volumes == Get(data, "total_volumes")
    IN  IF prices = <<>> THEN Return(<<>>)
        ELSE IF \E k \in DOMAIN prices : prices[k].null THEN Raise("TypeError")
        ELSE IF ~ColumnsAgree(prices, market_caps, total_volumes)
        THEN Raise("ValueError")
        ELSE Return([k \in DOMAIN prices |->
                [Date       |-> ToDatetime(prices[k].t),
                 Price      |-> RoundTo(prices[k].v, 10),
                 Market_Cap |-> RoundTo(ValueOrZero(market_caps[k]), 1000),
                 Volume     |-> RoundTo(ValueOrZero(total_volumes[k]), 1000)]])

----------------------------------------------------------------------------
(* datetime *)

\* datetime.datetime.combine(d, datetime.time.min)
CombineMin(d) == [day |-> d, sec |-> 0, us |-> 0]

\* datetime.datetime.combine(d, datetime.time.max)
CombineMax(d) == [day |-> d, sec |-> SecondsPerDay - 1, us |-> MicrosPerSecond - 1]

\* The zones a deployment may run in: UTC, and a zone five hours west of UTC
\* whose clocks go forward one hour at 02:00 of day dst_day.
UTC == [std |-> 0, dst |-> FALSE, dst_day |-> 0]

Zones == {UTC, [std |-> 0 - 18000, dst |-> TRUE, dst_day |-> FirstDay + 1]}

\* seconds east of UTC that the local zone is at local wall-clock time dt
UtcOffset(dt) ==
    IF tz.dst /\ (dt.day > tz.dst_day \/ (dt.day = tz.dst_day /\ dt.sec >= 3 * 3600))
    THEN tz.std + 3600
    ELSE tz.std

\* datetime.timestamp() of a naive datetime: local time to seconds since the
\* epoch, a float sec + us / 10^6
Timestamp(dt) == [sec |-> dt.day * SecondsPerDay + dt.sec - UtcOffset(dt), us |-> dt.us]

\* a variant that rounds to the nearest whole second
Int_Rounding(f) == IF 2 * f.us >= MicrosPerSecond THEN f.sec + 1 ELSE f.sec

\* int(float): truncation toward zero
Int_(f) == IF f.sec < 0 /\ f.us > 0 THEN f.sec + 1 ELSE f.sec

----------------------------------------------------------------------------
(* @st.cache_data(ttl=300): entries [key, value, stored_at] *)

\* a variant whose entries never expire
ExpiredNever(e, t) == FALSE

Expired(e, t) == t - e.stored_at >= TTL

\* the unexpired entries stored under key
Lookup(cache, key, t) == {e \in cache : e.key = key /\ ~Expired(e, t)}

\* storing supersedes the key's entry and drops what has expired
Store(cache, key, value, t) ==
    {e \in cache : e.key # key /\ ~Expired(e, t)}
        \cup {[key |-> key, value |-> value, stored_at |-> t]}

\* the decorated function: serve an unexpired entry, else run the body and
\* store what it returns (an exception stores nothing)
Cached(cache, key, t, body) ==
    LET hit == Lookup(cache, key, t)
    IN  IF hit # {}
        THEN [result |-> Return((CHOOSE e \in hit : TRUE).value), cache |-> cache, ran |-> FALSE]
        ELSE IF body.exc = "none"
        THEN [result |-> body, cache |-> Store(cache, key, body.val, t), ran |-> TRUE]
        ELSE [result |-> body, cache |-> cache, ran |-> TRUE]

\* the body of both fetch functions after requests.get
Respond(response) ==
    IF response.status_code = 200 THEN Return(response.json) ELSE Raise("Exception")

NoRequest == [url |-> "", vs_currency |-> "", ids |-> <<>>, from |-> 0, to |-> 0]

MarketRequest(selected_coins, cur) ==
    [url |-> "coins/markets", vs_currency |-> cur, ids |-> selected_coins, from |-> 0, to |-> 0]

HistRequest(coin, cur, from_date, to_date) ==
    [url |-> "coins/market_chart/range", vs_currency |-> cur, ids |-> <<coin>>,
     from |-> Int_(Timestamp(from_date)), to |-> Int_(Timestamp(to_date))]

\* a variant that keys the snapshot cache by the set of coins, not the list
MarketKeyBySet(selected_coins, cur) ==
    <<[k \in DOMAIN selected_coins |->
        CHOOSE c \in Range(selected_coins) :
            Cardinality({d \in Range(selected_coins) :
                \E a, b \in DOMAIN COIN_OPTIONS :
                    COIN_OPTIONS[a] = d /\ COIN_OPTIONS[b] = c /\ a < b}) = k - 1], cur>>

\* the cache key is the tuple of the arguments as passed
MarketKey(selected_coins, cur) == <<selected_coins, cur>>

HistKey(coin, cur, from_date, to_date) == <<coin, cur, from_date, to_date>>

\* one invocation: its arguments, its outcome, the cache after it, and the
\* request it sent
Invocation(fn, args, c, request) ==
    [fn |-> fn, args |-> args, at |-> now, net |-> c.ran,
     request |-> IF c.ran THEN request ELSE NoRequest,
     result |-> c.result, cache |-> c.cache]

fetch_market_data(selected_coins, cur, response) ==
    Invocation("fetch_market_data", <<selected_coins, cur>>,
               Cached(market_cache, MarketKey(selected_coins, cur), now, Respond(response)),
               MarketRequest(selected_coins, cur))

fetch_historical_data(coin, cur, from_date, to_date, response) ==
    Invocation("fetch_historical_data", <<coin, cur, from_date, to_date>>,
               Cached(hist_cache, HistKey(coin, cur, from_date, to_date), now, Respond(response)),
               HistRequest(coin, cur, from_date, to_date))

\* what the log keeps of an invocation
Logged(inv) ==
    [fn |-> inv.fn, args |-> inv.args, at |-> inv.at, net |-> inv.net,
     request |-> inv.request, result |-> inv.result]

----------------------------------------------------------------------------
(* The state before anything ran *)

NoDate == [day |-> 0, sec |-> 0, us |-> 0]

ScriptIdle ==
    /\ pc = "idle"
    /\ currency = CURRENCY_OPTIONS[1]
    /\ coins_selected = <<>>
    /\ start_date = NoDate
    /\ end_date = NoDate
    /\ raw_market_data = Unset
    /\ market_df = Unset
    /\ hist_data = Unset
    /\ tab = 0
    /\ overview = "none"
    /\ tabs = <<>>
    /\ dominance = "none"
    /\ footer = FALSE
    /\ runs = 0

CachesEmpty ==
    /\ now = 0
    /\ market_cache = {}
    /\ hist_cache = {}
    /\ calls = <<>>

----------------------------------------------------------------------------
(* The normalisation functions applied to bounded raw inputs *)

SeqsUpTo(S, n) == UNION {[1..m -> S] : m \in 0..n}

NUMERIC_KEYS == {"current_price", "price_change_percentage_24h", "market_cap"}

\* a raw snapshot record: name and symbol, and each numeric key absent, null or a number
RawRecords ==
    UNION {{r \in [{"name", "symbol"} \cup D -> {Str("Bitcoin"), Str("btc"), Num(7), Null}] :
                /\ r["name"] = Str("Bitcoin")
                /\ r["symbol"] = Str("btc")
                /\ \A k \in D : r[k] \in {Num(7), Null}} : D \in SUBSET NUMERIC_KEYS}

MarketInputs == SeqsUpTo(RawRecords, MaxRecords) \ {<<>>}

SERIES_KEYS == {"prices", "market_caps", "total_volumes"}

MkData(present, p, c, v) ==
    [k \in present |-> CASE k = "prices" -> p [] k = "market_caps" -> c [] OTHER -> v]

PricePoints == {Point(90061001, 1234), Point(90061001, 1235)}

ValuePoints == {NoPoint, Point(90061001, 1499), Point(90061001, 1500)}

HistInputs ==
    {MkData(D, p, c, v) : D \in SUBSET SERIES_KEYS, p \in SeqsUpTo(PricePoints, MaxPoints),
                          c \in SeqsUpTo(ValuePoints, MaxPoints),
                          v \in SeqsUpTo(ValuePoints, MaxPoints)}

InitFormatMarket ==
    /\ ScriptIdle /\ CachesEmpty
    /\ tz = UTC
    /\ arg \in MarketInputs
    /\ ret = Unset

ApplyFormatMarket ==
    /\ ret = Unset
    /\ ret' = format_market_data(arg)
    /\ UNCHANGED <<now, tz, cacheVars, calls, scriptVars, arg>>

SpecFormatMarket == InitFormatMarket /\ [][ApplyFormatMarket]_vars

InitFormatHistorical ==
    /\ ScriptIdle /\ CachesEmpty
    /\ tz = UTC
    /\ arg \in HistInputs
    /\ ret = Unset

ApplyFormatHistorical ==
    /\ ret = Unset
    /\ ret' = format_complete_historical_data(arg)
    /\ UNCHANGED <<now, tz, cacheVars, calls, scriptVars, arg>>

SpecFormatHistorical == InitFormatHistorical /\ [][ApplyFormatHistorical]_vars

----------------------------------------------------------------------------
(* What the remote API may answer *)

FullRecord ==
    [name |-> Str("Bitcoin"), symbol |-> Str("btc"), current_price |-> Num(65000000),
     price_change_percentage_24h |-> Null, market_cap |-> Num(1280000)]

NoCapRecord ==
    [name |-> Str("Bitcoin"), symbol |-> Str("btc"), current_price |-> Num(64000000),
     price_change_percentage_24h |-> Num(2100)]

MarketPayloads == {<<FullRecord>>, <<NoCapRecord>>}

APoint == Point(90061001, 1235)

HistPayloads ==
    {MkData(SERIES_KEYS, <<APoint>>, <<APoint>>, <<NoPoint>>),
     MkData(SERIES_KEYS, <<APoint>>, <<>>, <<APoint>>)}

Responses(payloads) ==
    {[status_code |-> 200, json |-> p] : p \in payloads}
        \cup {[status_code |-> 429, json |-> <<>>]}

----------------------------------------------------------------------------
(* Time *)

Tick ==
    /\ now + TickStep <= MaxTime
    /\ now' = now + TickStep
    /\ UNCHANGED <<tz, cacheVars, calls, scriptVars, normVars>>

----------------------------------------------------------------------------
(* The fetch functions called directly, at any time, with any arguments *)

Coins == {COIN_OPTIONS[1], COIN_OPTIONS[2]}

Currencies == {CURRENCY_OPTIONS[1], CURRENCY_OPTIONS[3]}

\* the lists st.multiselect can return: the chosen options in the order chosen
SelectableLists ==
    {l \in SeqsUpTo(Coins, Cardinality(Coins)) : \A a, b \in DOMAIN l : a # b => l[a] # l[b]}

Days == FirstDay .. FirstDay + DaySpan

InitCache ==
    /\ ScriptIdle /\ CachesEmpty
    /\ tz = UTC
    /\ arg = <<>>
    /\ ret = Unset

CallFetchMarket ==
    \E coins \in {l \in SelectableLists : Len(l) = Cardinality(Coins)}, cur \in Currencies,
       response \in Responses(MarketPayloads) :
        LET inv == fetch_market_data(coins, cur, response)
        IN  /\ Len(calls) < MaxCalls
            /\ market_cache' = inv.cache
            /\ calls' = Append(calls, Logged(inv))
            /\ UNCHANGED <<now, tz, hist_cache, scriptVars, normVars>>

CallFetchHistorical ==
    \E response \in Responses(HistPayloads) :
        LET inv == fetch_historical_data(COIN_OPTIONS[1], CURRENCY_OPTIONS[1],
                                         CombineMin(FirstDay), CombineMax(FirstDay), response)
        IN  /\ Len(calls) < MaxCalls
            /\ hist_cache' = inv.cache
            /\ calls' = Append(calls, Logged(inv))
            /\ UNCHANGED <<now, tz, market_cache, scriptVars, normVars>>

NextCache == CallFetchMarket \/ CallFetchHistorical \/ Tick

SpecCache == InitCache /\ [][NextCache]_vars

----------------------------------------------------------------------------
(* The script, run top to bottom on every interaction *)

\* the widgets' default values: the first currency, two coins, a range of days
DefaultStart == FirstDay

DefaultEnd == FirstDay + 1

Init ==
    /\ CachesEmpty
    /\ tz \in Zones
    /\ pc = "idle"
    /\ currency = CURRENCY_OPTIONS[1]
    /\ coins_selected = <<COIN_OPTIONS[1], COIN_OPTIONS[2]>>
    /\ start_date = CombineMin(DefaultStart)
    /\ end_date = CombineMax(DefaultEnd)
    /\ raw_market_data = Unset
    /\ market_df = Unset
    /\ hist_data = Unset
    /\ tab = 0
    /\ overview = "none"
    /\ tabs = <<>>
    /\ dominance = "none"
    /\ footer = FALSE
    /\ runs = 0
    /\ arg = <<>>
    /\ ret = Unset

\* a variant without the guard of lines 104-106
Top_NoGuard(cur, coins, sd, ed) ==
    /\ runs < MaxRuns
    /\ runs' = runs + 1
    /\ currency' = cur
    /\ coins_selected' = coins
    /\ raw_market_data' = Unset
    /\ market_df' = Unset
    /\ hist_data' = Unset
    /\ tab' = 0
    /\ overview' = "none"
    /\ tabs' = <<>>
    /\ dominance' = "none"
    /\ footer' = FALSE
    /\ calls' = <<>>
    /\ pc' = "overview_fetch"
    /\ start_date' = CombineMin(sd)
    /\ end_date' = CombineMax(ed)
    /\ UNCHANGED <<now, tz, cacheVars, normVars>>

\* lines 100-116 with the widgets holding cur, coins, sd and ed: a run starts
\* with no globals, stops at an empty coin list, else normalises the two dates.
\* The date inputs of a stopped run are not drawn and fall back to their defaults.
Top(cur, coins, sd, ed) ==
    /\ runs < MaxRuns
    /\ runs' = runs + 1
    /\ currency' = cur
    /\ coins_selected' = coins
    /\ raw_market_data' = Unset
    /\ market_df' = Unset
    /\ hist_data' = Unset
    /\ tab' = 0
    /\ overview' = "none"
    /\ tabs' = <<>>
    /\ dominance' = "none"
    /\ footer' = FALSE
    /\ calls' = <<>>
    /\ IF coins = <<>>
       THEN /\ pc' = "stopped"
            /\ start_date' = CombineMin(DefaultStart)
            /\ end_date' = CombineMax(DefaultEnd)
       ELSE /\ pc' = "overview_fetch"
            /\ start_date' = CombineMin(sd)
            /\ end_date' = CombineMax(ed)
    /\ UNCHANGED <<now, tz, cacheVars, normVars>>

\* st.multiselect: one option removed, one appended, or all cleared
Without(l, k) == [j \in 1..(Len(l) - 1) |-> IF j < k THEN l[j] ELSE l[j + 1]]

MultiselectMoves(l) ==
    ({Without(l, k) : k \in DOMAIN l}
        \cup {Append(l, c) : c \in Coins \ Range(l)}
        \cup {<<>>}) \ {l}

\* the page is loaded, or run again with the widgets as they are
Load ==
    /\ pc \in {"idle", "stopped", "done"}
    /\ Top(currency, coins_selected, start_date.day, end_date.day)

\* each change of a widget of a finished run runs the script again; the date
\* inputs are drawn only by a run that got past line 106
SelectCurrency ==
    \E cur \in Currencies \ {currency} :
        /\ pc \in {"stopped", "done"}
        /\ Top(cur, coins_selected, start_date.day, end_date.day)

SelectCoins ==
    \E coins \in MultiselectMoves(coins_selected) :
        /\ pc \in {"stopped", "done"}
        /\ Top(currency, coins, start_date.day, end_date.day)

PickStartDate ==
    \E d \in Days \ {start_date.day} :
        /\ pc = "done"
        /\ Top(currency, coins_selected, d, end_date.day)

PickEndDate ==
    \E d \in Days \ {end_date.day} :
        /\ pc = "done"
        /\ Top(currency, coins_selected, start_date.day, d)

\* line 127
OverviewFetch ==
    \E response \in Responses(MarketPayloads) :
        LET inv == fetch_market_data(coins_selected, currency, response)
        IN  /\ pc = "overview_fetch"
            /\ raw_market_data' = inv.result
            /\ market_cache' = inv.cache
            /\ calls' = Append(calls, Logged(inv))
            /\ pc' = "overview_render"
            /\ UNCHANGED <<now, tz, hist_cache, currency, coins_selected, start_date, end_date,
                           market_df, hist_data, tab, overview, tabs, dominance, footer,
                           runs, normVars>>

\* lines 128-149: an exception of line 127 or 128 ends the try block
OverviewRender ==
    LET df == IF raw_market_data.exc = "none"
              THEN format_market_data(raw_market_data.val)
              ELSE raw_market_data
    IN  /\ pc = "overview_render"
        /\ IF df.exc = "none"
           THEN market_df' = df /\ overview' = "table"
           ELSE market_df' = market_df /\ overview' = "error"
        /\ tab' = 1
        /\ pc' = "tab_fetch"
        /\ UNCHANGED <<now, tz, cacheVars, calls, currency, coins_selected, start_date,
                       end_date, raw_market_data, hist_data, tabs, dominance, footer,
                       runs, normVars>>

\* lines 157-162
TabFetch ==
    \E response \in Responses(HistPayloads) :
        LET inv == fetch_historical_data(coins_selected[tab], currency, start_date,
                                         end_date, response)
        IN  /\ pc = "tab_fetch"
            /\ hist_data' = inv.result
            /\ hist_cache' = inv.cache
            /\ calls' = Append(calls, Logged(inv))
            /\ pc' = "tab_render"
            /\ UNCHANGED <<now, tz, market_cache, currency, coins_selected, start_date,
                           end_date, raw_market_data, market_df, tab, overview, tabs,
                           dominance, footer, runs, normVars>>

\* lines 163-185: what the tab shows
TabNotice(fetched) ==
    LET hist_df == IF fetched.exc = "none"
                   THEN format_complete_historical_data(fetched.val)
                   ELSE fetched
    IN  IF hist_df.exc # "none" THEN "error"
        ELSE IF Len(hist_df.val) = 0 THEN "warning"
        ELSE "chart"

\* a variant with the try around the loop: an error ends the loop
TabRender_TryAroundLoop ==
    /\ pc = "tab_render"
    /\ tabs' = Append(tabs, [coin |-> coins_selected[tab], fetched |-> hist_data,
                             shows |-> TabNotice(hist_data)])
    /\ IF tab < Len(coins_selected) /\ TabNotice(hist_data) # "error"
       THEN tab' = tab + 1 /\ pc' = "tab_fetch"
       ELSE tab' = tab /\ pc' = "dominance"
    /\ UNCHANGED <<now, tz, cacheVars, calls, currency, coins_selected, start_date, end_date,
                   raw_market_data, market_df, hist_data, overview, dominance, footer,
                   runs, normVars>>

\* a variant that fetches a coin once more when its tab failed
TabRender_Retry ==
    /\ pc = "tab_render"
    /\ IF TabNotice(hist_data) = "error" /\ Len(calls) = tab + 1
       THEN tabs' = tabs /\ tab' = tab /\ pc' = "tab_fetch"
       ELSE /\ tabs' = Append(tabs, [coin |-> coins_selected[tab], fetched |-> hist_data,
                                     shows |-> TabNotice(hist_data)])
            /\ IF tab < Len(coins_selected)
               THEN tab' = tab + 1 /\ pc' = "tab_fetch"
               ELSE tab' = tab /\ pc' = "dominance"
    /\ UNCHANGED <<now, tz, cacheVars, calls, currency, coins_selected, start_date, end_date,
                   raw_market_data, market_df, hist_data, overview, dominance, footer,
                   runs, normVars>>

\* lines 163-185, and the loop's step to the next coin
TabRender ==
    /\ pc = "tab_render"
    /\ tabs' = Append(tabs, [coin |-> coins_selected[tab], fetched |-> hist_data,
                             shows |-> TabNotice(hist_data)])
    /\ IF tab < Len(coins_selected)
       THEN tab' = tab + 1 /\ pc' = "tab_fetch"
       ELSE tab' = tab /\ pc' = "dominance"
    /\ UNCHANGED <<now, tz, cacheVars, calls, currency, coins_selected, start_date, end_date,
                   raw_market_data, market_df, hist_data, overview, dominance, footer,
                   runs, normVars>>

\* lines 190-197: market_df is undefined when the overview failed
Dominance ==
    /\ pc = "dominance"
    /\ dominance' = IF market_df = Unset THEN "warning" ELSE "chart"
    /\ pc' = "footer"
    /\ UNCHANGED <<now, tz, cacheVars, calls, currency, coins_selected, start_date, end_date,
                   raw_market_data, market_df, hist_data, tab, overview, tabs, footer,
                   runs, normVars>>

\* lines 202-203
Footer ==
    /\ pc = "footer"
    /\ footer' = TRUE
    /\ pc' = "done"
    /\ UNCHANGED <<now, tz, cacheVars, calls, currency, coins_selected, start_date, end_date,
                   raw_market_data, market_df, hist_data, tab, overview, tabs, dominance,
                   runs, normVars>>

\* A session: the page load and the runs that follow the user's changes.  Its
\* runs fall within one step of the clock, so no entry expires during a
\* session; expiry is what SpecCache exercises.
Next ==
    \/ Load
    \/ SelectCurrency
    \/ SelectCoins
    \/ PickStartDate
    \/ PickEndDate
    \/ OverviewFetch
    \/ OverviewRender
    \/ TabFetch
    \/ TabRender
    \/ Dominance
    \/ Footer

Spec == Init /\ [][Next]_vars

----------------------------------------------------------------------------
(* One historical tab, for every payload the API may answer with: the state
   of a first load of the page for one coin, after the snapshot fetch failed
   and line 162 ran *)

InitTab ==
    \E response \in Responses(HistInputs) :
        LET coin == COIN_OPTIONS[1]
            cur == CURRENCY_OPTIONS[1]
            from_date == CombineMin(DefaultStart)
            to_date == CombineMax(DefaultEnd)
            m == Invocation("fetch_market_data", <<<<coin>>, cur>>,
                            Cached({}, MarketKey(<<coin>>, cur), 0, Raise("Exception")),
                            MarketRequest(<<coin>>, cur))
            h == Invocation("fetch_historical_data", <<coin, cur, from_date, to_date>>,
                            Cached({}, HistKey(coin, cur, from_date, to_date), 0,
                                   Respond(response)),
                            HistRequest(coin, cur, from_date, to_date))
        IN  /\ now = 0
            /\ tz = UTC
            /\ market_cache = m.cache
            /\ hist_cache = h.cache
            /\ calls = <<Logged(m), Logged(h)>>
            /\ pc = "tab_render"
            /\ currency = cur
            /\ coins_selected = <<coin>>
            /\ start_date = from_date
            /\ end_date = to_date
            /\ raw_market_data = m.result
            /\ market_df = Unset
            /\ hist_data = h.result
            /\ tab = 1
            /\ overview = "error"
            /\ tabs = <<>>
            /\ dominance = "none"
            /\ footer = FALSE
            /\ runs = 1
            /\ arg = <<>>
            /\ ret = Unset

NextTab == TabRender \/ Dominance \/ Footer

SpecTab == InitTab /\ [][NextTab]_vars

----------------------------------------------------------------------------
(* C5 *)

\* what the claim expects in a numeric field: the number, or 0 when null or absent
ExpectedNumber(rec, key) ==
    IF key \in DOMAIN rec /\ rec[key].kind = "num" THEN rec[key] ELSE Num(0)

\* C5: format_market_data returns, for every non-empty list of raw records whose
\* numeric fields are numbers, null or absent (also absent from every record),
\* one row per record in input order, with 0 in every null or absent numeric field.
C5_ZeroForMissing ==
    ret # Unset =>
        /\ ret.exc = "none"
        /\ Len(ret.val) = Len(arg)
        /\ \A k \in DOMAIN arg :
            /\ ret.val[k].Name = arg[k]["name"]
            /\ ret.val[k].Price = ExpectedNumber(arg[k], "current_price")
            /\ ret.val[k].Change24h = ExpectedNumber(arg[k], "price_change_percentage_24h")
            /\ ret.val[k].MarketCap = ExpectedNumber(arg[k], "market_cap")

\* the part of C5 the code keeps: when every selected column occurs in some record
C5_ZeroForMissingWhenColumnsOccur ==
    (ret # Unset /\ NUMERIC_KEYS \subseteq FrameColumns(arg)) =>
        /\ ret.exc = "none"
        /\ Len(ret.val) = Len(arg)
        /\ \A k \in DOMAIN arg :
            /\ ret.val[k].Name = arg[k]["name"]
            /\ ret.val[k].Price = ExpectedNumber(arg[k], "current_price")
            /\ ret.val[k].Change24h = ExpectedNumber(arg[k], "price_change_percentage_24h")
            /\ ret.val[k].MarketCap = ExpectedNumber(arg[k], "market_cap")

----------------------------------------------------------------------------
(* C3 *)

\* what the claim expects at row k of a series: its value, or 0 when there is none
ExpectedValue(series, k) ==
    IF k \in DOMAIN series THEN ValueOrZero(series[k]) ELSE 0

\* C3: for a payload with N >= 1 price points and market_caps and total_volumes of
\* any lengths, format_complete_historical_data returns N rows, row k built from
\* prices[k], market_caps[k] and total_volumes[k], with 0 for a missing cap or volume.
C3_RowPerPricePoint ==
    (ret # Unset /\ Get(arg, "prices") # <<>>) =>
        /\ ret.exc = "none"
        /\ Len(ret.val) = Len(Get(arg, "prices"))
        /\ \A k \in DOMAIN ret.val :
            /\ ret.val[k].Price = RoundTo(Get(arg, "prices")[k].v, 10)
            /\ ret.val[k].Market_Cap = RoundTo(ExpectedValue(Get(arg, "market_caps"), k), 1000)
            /\ ret.val[k].Volume = RoundTo(ExpectedValue(Get(arg, "total_volumes"), k), 1000)

\* the part of C3 the code keeps: when the three series have one length
C3_RowPerPricePointWhenLengthsAgree ==
    (/\ ret # Unset
     /\ Get(arg, "prices") # <<>>
     /\ ColumnsAgree(Get(arg, "prices"), Get(arg, "market_caps"), Get(arg, "total_volumes"))) =>
        /\ ret.exc = "none"
        /\ Len(ret.val) = Len(Get(arg, "prices"))
        /\ \A k \in DOMAIN ret.val :
            /\ ret.val[k].Price = RoundTo(Get(arg, "prices")[k].v, 10)
            /\ ret.val[k].Market_Cap = RoundTo(ExpectedValue(Get(arg, "market_caps"), k), 1000)
            /\ ret.val[k].Volume = RoundTo(ExpectedValue(Get(arg, "total_volumes"), k), 1000)

----------------------------------------------------------------------------
(* C4 *)

LastTab == tabs[Len(tabs)]

\* C4: a payload whose price list is empty or absent normalises to an empty table
\* whatever market_caps and total_volumes hold, and its tab shows the "no data"
\* warning, not the error notice; a tab whose fetch failed never shows the warning.
C4_NoDataIsNotAnError ==
    tabs # <<>> =>
        /\ (LastTab.fetched.exc = "none" /\ Get(LastTab.fetched.val, "prices") = <<>>) =>
                /\ format_complete_historical_data(LastTab.fetched.val) = Return(<<>>)
                /\ LastTab.shows = "warning"
        /\ LastTab.fetched.exc # "none" => LastTab.shows = "error"

\* empty prices beside a non-empty market_caps: the tab shows the warning
C4_Witness ==
    /\ tabs # <<>>
    /\ LastTab.fetched.exc = "none"
    /\ Get(LastTab.fetched.val, "prices") = <<>>
    /\ Get(LastTab.fetched.val, "market_caps") # <<>>
    /\ Get(LastTab.fetched.val, "total_volumes") = <<>>
    /\ LastTab.shows = "warning"

----------------------------------------------------------------------------
(* C2 *)

\* the steps of a run after line 116
RunStep ==
    OverviewFetch \/ OverviewRender \/ TabFetch \/ TabRender \/ Dominance \/ Footer

Running ==
    pc \in {"overview_fetch", "overview_render", "tab_fetch", "tab_render", "dominance", "footer"}

\* C2: in a run with a non-empty coin list, whatever fails (the snapshot fetch, a
\* coin's historical fetch or its normalisation), every coin's tab is processed
\* and the run goes on to the footer: every position of the run has a next step,
\* and a finished run has handled the overview, each coin's tab and the footer.
C2_FailuresStayLocal ==
    /\ pc \in {"idle", "stopped", "done"} \/ Running
    /\ pc = "stopped" => coins_selected = <<>>
    /\ Running => ENABLED RunStep
    /\ pc \in {"dominance", "footer", "done"} =>
        /\ overview \in {"table", "error"}
        /\ Len(tabs) = Len(coins_selected)
        /\ \A k \in DOMAIN tabs :
            /\ tabs[k].coin = coins_selected[k]
            /\ tabs[k].shows \in {"chart", "warning", "error"}
    /\ pc = "done" => footer /\ dominance \in {"chart", "warning"}

\* the snapshot fetch failed, the first coin's normalisation failed, the second
\* coin's tab shows its chart and the footer is drawn
C2_Witness ==
    /\ pc = "done"
    /\ footer
    /\ overview = "error"
    /\ raw_market_data.exc = "Exception"
    /\ Len(tabs) = 2
    /\ tabs[1].shows = "error"
    /\ tabs[1].fetched.exc = "none"
    /\ tabs[2].shows = "chart"

----------------------------------------------------------------------------
(* C6 *)

\* C6: a run whose coin list is empty stops before any fetch: it invokes neither
\* fetch function, and every invocation of fetch_market_data has a non-empty list.
C6_NoFetchWithoutCoins ==
    /\ coins_selected = <<>> => pc = "stopped" /\ calls = <<>>
    /\ \A k \in DOMAIN calls :
        calls[k].fn = "fetch_market_data" => calls[k].args[1] # <<>>

\* a run stopped at the empty coin list after an earlier run had fetched
C6_Witness ==
    /\ pc = "stopped"
    /\ coins_selected = <<>>
    /\ calls = <<>>
    /\ market_cache # {}

----------------------------------------------------------------------------
(* C7 *)

\* seconds since the epoch of local wall-clock second s of day d
WallClockEpoch(d, s) ==
    d * SecondsPerDay + s - UtcOffset([day |-> d, sec |-> s, us |-> 0])

SentHistorical == {k \in DOMAIN calls : calls[k].fn = "fetch_historical_data" /\ calls[k].net}

\* C7 as claimed: the request carries from = 00:00:00 of the start day and
\* to = 23:59:59 of the end day, as whole seconds, and for a single day
\* to - from = 86399.
C7_SingleDayIs86399 ==
    \A k \in SentHistorical :
        /\ calls[k].request.from = WallClockEpoch(start_date.day, 0)
        /\ calls[k].request.to = WallClockEpoch(end_date.day, SecondsPerDay - 1)
        /\ start_date.day = end_date.day =>
                calls[k].request.to - calls[k].request.from = SecondsPerDay - 1

\* C7 as amended: from and to are the whole epoch seconds of local 00:00:00 of
\* the start day and local 23:59:59 of the end day; for a single day
\* to - from = 86399 when the zone's UTC offset is the same at both.
C7_DayBoundsInLocalTime ==
    \A k \in SentHistorical :
        /\ calls[k].request.from = WallClockEpoch(start_date.day, 0)
        /\ calls[k].request.to = WallClockEpoch(end_date.day, SecondsPerDay - 1)
        /\ (start_date.day = end_date.day /\ UtcOffset(start_date) = UtcOffset(end_date)) =>
                calls[k].request.to - calls[k].request.from = SecondsPerDay - 1

\* one day picked as start and end, sent as a window of 86399 seconds
C7_Witness ==
    \E k \in SentHistorical :
        /\ start_date.day = end_date.day
        /\ calls[k].request.from = WallClockEpoch(start_date.day, 0)
        /\ calls[k].request.to - calls[k].request.from = SecondsPerDay - 1

----------------------------------------------------------------------------
(* C8 *)

\* C8: every invocation of fetch_historical_data has from <= to, and no request
\* is sent with from > to.
C8_FromNotAfterTo ==
    \A k \in DOMAIN calls :
        calls[k].fn = "fetch_historical_data" =>
            /\ Int_(Timestamp(calls[k].args[3])) <= Int_(Timestamp(calls[k].args[4]))
            /\ calls[k].net => calls[k].request.from <= calls[k].request.to

----------------------------------------------------------------------------
(* C10 *)

\* C10: a run with a non-empty coin list invokes fetch_market_data once, first,
\* then fetch_historical_data once per selected coin in the order of the list;
\* nothing is fetched twice, the overview is handled before the first historical
\* fetch, and coin i+1 is fetched only after coin i's tab was handled.
C10_OneFetchPerSectionInOrder ==
    /\ \A k \in DOMAIN calls :
        IF k = 1
        THEN /\ calls[k].fn = "fetch_market_data"
             /\ calls[k].args = <<coins_selected, currency>>
        ELSE /\ calls[k].fn = "fetch_historical_data"
             /\ k - 1 \in DOMAIN coins_selected
             /\ calls[k].args = <<coins_selected[k - 1], currency, start_date, end_date>>
             /\ overview # "none"
             /\ Len(tabs) >= k - 2
    /\ Len(tabs) <= Len(calls)
    /\ pc \in {"dominance", "footer", "done"} => Len(calls) = 1 + Len(coins_selected)

\* a finished run over two coins: the snapshot served from the cache, the first
\* coin's fetch failed, the second coin fetched after it
C10_Witness ==
    /\ pc = "done"
    /\ Len(coins_selected) = 2
    /\ Len(calls) = 3
    /\ ~calls[1].net
    /\ calls[2].net
    /\ calls[2].result.exc = "Exception"
    /\ calls[3].args[1] = coins_selected[2]

----------------------------------------------------------------------------
(* C1 *)

SameArguments(a, b) == calls[a].fn = calls[b].fn /\ calls[a].args = calls[b].args

SameResult(a, b) ==
    /\ calls[a].result.exc = calls[b].result.exc
    /\ calls[a].result.exc = "none" => calls[a].result.val = calls[b].result.val

\* the invocation ran the function body and the body returned: an entry was stored
Stored(a) == calls[a].net /\ calls[a].result.exc = "none"

\* the earlier invocations with the arguments of invocation b that stored an entry
StoredBefore(b) == {a \in 1..(b - 1) : SameArguments(a, b) /\ Stored(a)}

----------------------------------------------------------------------------
(* C9 *)

SnapshotCalls == {k \in DOMAIN calls : calls[k].fn = "fetch_market_data"}

SameCoinSet(k1, k2) == Range(k1[1]) = Range(k2[1]) /\ k1[2] = k2[2]

Unexpired(cache) == {e \in cache : ~Expired(e, now)}

\* C9 as claimed: the snapshot cache is keyed by (set of coins, currency): a call
\* less than 300 s after a call that stored an entry for the same currency and
\* the same set of coins, in any order, is served from it without a request,
\* and the cache never holds two unexpired entries for one such key.
C9_KeyedByCoinSet ==
    /\ \A a, b \in SnapshotCalls :
        (/\ a < b
         /\ SameCoinSet(calls[a].args, calls[b].args)
         /\ Stored(a)
         /\ calls[b].at - calls[a].at < TTL) =>
            ~calls[b].net /\ SameResult(a, b)
    /\ \A e1, e2 \in Unexpired(market_cache) : SameCoinSet(e1.key, e2.key) => e1 = e2

\* C9 as amended: the key is (list of coins in the order selected, currency): a
\* call less than 300 s after a call that stored an entry for the same currency
\* and the same list is served from it without a request; a call whose list no
\* earlier call stored an entry for sends a request, also when an entry for
\* the same coins in another order is fresh; and the cache never holds two
\* unexpired entries for one such key.
C9_KeyedByCoinList ==
    /\ \A a, b \in SnapshotCalls :
        (/\ a < b
         /\ calls[a].args = calls[b].args
         /\ Stored(a)
         /\ calls[b].at - calls[a].at < TTL) =>
            ~calls[b].net /\ SameResult(a, b)
    /\ \A b \in SnapshotCalls : StoredBefore(b) = {} => calls[b].net
    /\ \A e1, e2 \in Unexpired(market_cache) : e1.key = e2.key => e1 = e2

\* the same coins in two orders: two requests, two fresh entries; then a hit
C9_Witness ==
    \E a, b, c \in SnapshotCalls :
        /\ a < b /\ b < c
        /\ SameCoinSet(calls[a].args, calls[b].args)
        /\ calls[a].args # calls[b].args
        /\ Stored(a) /\ Stored(b)
        /\ calls[b].at - calls[a].at < TTL
        /\ calls[c].args = calls[a].args
        /\ ~calls[c].net
        /\ Cardinality(Unexpired(market_cache)) = 2

====
